---- MODULE Spec2Model ----
(***************************************************************************)
(* WAM NFC Audio Box (src/WAM_NFC_Audio_Box.ino): the volume manager with  *)
(* its EEPROM persistence, the NDEF text record parser, and the setup /    *)
(* loop dispatch around the PN532 reader and the SD WAV player.            *)
(*                                                                         *)
(* Numbers.  currentVolume is an IEEE-754 binary32 float.  Every float the *)
(* program can hold is 0 or an integer multiple of 2^-30 not above 1.1, so *)
(* a float is represented exactly by its count of 2^-30 units; arithmetic  *)
(* rounds to 24 significant bits, ties to even, as the FPU does.           *)
(* Text.  Bytes are 0..255; a C string is the sequence of its bytes before *)
(* the terminator.                                                         *)
(***************************************************************************)
EXTENDS Integers, Sequences, FiniteSets, TLC

VARIABLES
    pc,             \* where the sketch is: boot, halted, idle, wait (in a wait loop
                    \* on isPlaying()); parse_call, parse_ret for the parser alone
    eeprom,         \* EEPROM cell EEPROM_VOLUME_ADDRESS
    currentVolume,  \* float, in units of 2^-30
    gain,           \* mixer1/mixer2 channel 0 gain, same units
    sdFiles,        \* names SD.exists() answers true for
    playing,        \* file playSdWav1 is playing, <<>> when isPlaying() is false
    branch,         \* path the most recent loop() took
    played,         \* names passed to playSdWav1.play() by the most recent loop()
    writes,         \* EEPROM.write() calls made by the most recent setup()/loop()
    allData,        \* loop(): page bytes gathered (parser input)
    dataIndex,      \* loop(): number of bytes gathered (parser dataLength)
    maxText,        \* maxTextLength handed to the parser
    parsed,         \* "none" (parser not called), "ok", "fail"
    textBuffer,     \* loop(): text bytes the parser copied out, before uppercasing
    serialUp        \* what setup() reads from Serial: the USB serial port is open

vars == <<pc, eeprom, currentVolume, gain, sdFiles, playing, branch, played,
          writes, allData, dataIndex, maxText, parsed, textBuffer, serialUp>>

---------------------------------------------------------------------------
(* binary32 arithmetic on counts of 2^-30 *)

Pow2(k) == IF k <= 0 THEN 1 ELSE 2 ^ k

\* number of binary digits of n (0 for 0), n below 2^31
Bits(n) ==
    IF n <= 0 THEN 0
    ELSE CHOOSE b \in 1..31 : Pow2(b - 1) <= n /\ (b = 31 \/ n < Pow2(b))

\* n / d rounded to the nearest integer, ties to the even one
RoundHalfEven(n, d) ==
    LET q == n \div d
        r == n % d
    IN  IF r > d - r \/ (r = d - r /\ q % 2 = 1) THEN q + 1 ELSE q

\* the real number n (an integer count of some unit) rounded to 24 significant bits
RoundToFloat(n) ==
    LET u == Pow2(Bits(n) - 24)
    IN  RoundHalfEven(n, u) * u

FloatOne == 1073741824

\* (float)(k / 100.0) for an int k in 0..100.  k*2^sh/100 is scaled into
\* [2^23, 2^24) and rounded once: the quotient's fraction is a multiple of
\* 1/25, never within 2^-29 of a tie, so rounding through double changes nothing.
ScaleUp(x, sh) ==
    LET k == 31 - Bits(x)
        j == IF x * Pow2(k - 2) >= 838860800 THEN k - 2
             ELSE IF x * Pow2(k - 1) >= 838860800 THEN k - 1 ELSE k
    IN  <<x * Pow2(j), sh + j>>

FloatOfHundredths(k) ==
    IF k = 0 THEN 0
    ELSE LET s == ScaleUp(k, 0)
             m == RoundHalfEven(s[1], 100)
         IN  m * Pow2(30 - s[2])

\* float + float and float - float, rounded to float
FAdd(a, b) == RoundToFloat(a + b)
FSub(a, b) == RoundToFloat(a - b)

\* (int)(v * 100): the product is rounded to float, the cast truncates
IntOfTimes100(v) ==
    LET s  == Bits(v) - 24
        s0 == IF s > 0 THEN s ELSE 0
        m  == v \div Pow2(s0)
        p  == m * 100
        t  == Bits(p) - 24
        t0 == IF t > 0 THEN t ELSE 0
        pr == RoundHalfEven(p, Pow2(t0))
    IN  pr \div Pow2(30 - s0 - t0)

---------------------------------------------------------------------------
(* configuration (lines 43-47) *)

defaultVolume == FloatOne \div 2
volumeStep == FloatOfHundredths(10)
minVolume == FloatOfHundredths(10)
maxVolume == FloatOne

---------------------------------------------------------------------------
(* text and file names *)

NoFile == <<>>
DotWAV   == <<46, 87, 65, 86>>                                 \* ".WAV"
VOLUMEUP == <<86, 79, 76, 85, 77, 69, 85, 80>>                 \* "VOLUMEUP"
VOLUMEDN == <<86, 79, 76, 85, 77, 69, 68, 78>>                 \* "VOLUMEDN"
VOLUMEMX == <<86, 79, 76, 85, 77, 69, 77, 88>>                 \* "VOLUMEMX"
VOLUMEMN == <<86, 79, 76, 85, 77, 69, 77, 78>>                 \* "VOLUMEMN"
NOMATCH  == <<78, 79, 77, 65, 84, 67, 72>>                     \* "NOMATCH"
STARTUP  == <<83, 84, 65, 82, 84, 85, 80>>                     \* "STARTUP"
VOLUMEUP_WAV == VOLUMEUP \o DotWAV
VOLUMEDN_WAV == VOLUMEDN \o DotWAV
VOLUMEMX_WAV == VOLUMEMX \o DotWAV
VOLUMEMN_WAV == VOLUMEMN \o DotWAV
NOMATCH_WAV  == NOMATCH \o DotWAV
STARTUP_WAV  == STARTUP \o DotWAV

\* toupper() in the C locale
toupper(c) == IF c >= 97 /\ c <= 122 THEN c - 32 ELSE c

\* the C string held in a char buffer: the bytes before the first 0
RECURSIVE CStr(_)
CStr(b) == IF b = <<>> \/ Head(b) = 0 THEN <<>> ELSE <<Head(b)>> \o CStr(Tail(b))

\* loop(), lines 326-328: uppercase the string in place
UpperCase(str) == [i \in 1..Len(str) |-> toupper(str[i])]

\* playSdWav1.play(name) guarded by SD.exists(name): the names handed to play()
PlayIfExists(name, files) == IF name \in files THEN <<name>> ELSE <<>>

---------------------------------------------------------------------------
(* volume manager *)

\* the byte saveVolumeToEEPROM() hands to EEPROM.write()
saveVolumeToEEPROM(vol) == IntOfTimes100(vol) % 256

\* the load falling back to the default without writing it to the EEPROM
loadVolumeFromEEPROM_NoResave(ee) ==
    IF ee <= 100
    THEN [vol |-> FloatOfHundredths(ee), ee |-> ee, writes |-> 0]
    ELSE [vol |-> defaultVolume, ee |-> ee, writes |-> 0]

loadVolumeFromEEPROM(ee) ==
    IF ee <= 100
    THEN [vol |-> FloatOfHundredths(ee), ee |-> ee, writes |-> 0]
    ELSE [vol |-> defaultVolume, ee |-> saveVolumeToEEPROM(defaultVolume), writes |-> 1]

\* volumeUp with the bound test written > instead of >=
volumeUp_StrictBound(vol, ee, g, files) ==
    IF vol > maxVolume
    THEN [vol |-> vol, ee |-> ee, gain |-> g, writes |-> 0,
          play |-> PlayIfExists(VOLUMEMX_WAV, files), branch |-> "volup_max"]
    ELSE [vol |-> IF FAdd(vol, volumeStep) > maxVolume THEN maxVolume
                  ELSE FAdd(vol, volumeStep),
          ee |-> saveVolumeToEEPROM(IF FAdd(vol, volumeStep) > maxVolume THEN maxVolume
                                    ELSE FAdd(vol, volumeStep)),
          gain |-> IF FAdd(vol, volumeStep) > maxVolume THEN maxVolume
                   ELSE FAdd(vol, volumeStep),
          writes |-> 1,
          play |-> PlayIfExists(VOLUMEUP_WAV, files), branch |-> "volup"]

\* the outcome of one command: the volume, the EEPROM cell, the mixer gain, the
\* EEPROM.write() calls made, the names handed to play(), the path taken
volumeUp(vol, ee, g, files) ==
    IF vol >= maxVolume
    THEN [vol |-> vol, ee |-> ee, gain |-> g, writes |-> 0,
          play |-> PlayIfExists(VOLUMEMX_WAV, files), branch |-> "volup_max"]
    ELSE LET v1 == FAdd(vol, volumeStep)
             v2 == IF v1 > maxVolume THEN maxVolume ELSE v1
         IN  [vol |-> v2, ee |-> saveVolumeToEEPROM(v2), gain |-> v2, writes |-> 1,
              play |-> PlayIfExists(VOLUMEUP_WAV, files), branch |-> "volup"]

\* volumeDown playing the confirmation sound on the bound-hit path too
volumeDown_WrongSound(vol, ee, g, files) ==
    IF vol <= minVolume
    THEN [vol |-> vol, ee |-> ee, gain |-> g, writes |-> 0,
          play |-> PlayIfExists(VOLUMEDN_WAV, files), branch |-> "voldn_min"]
    ELSE [vol |-> IF FSub(vol, volumeStep) < minVolume THEN minVolume
                  ELSE FSub(vol, volumeStep),
          ee |-> saveVolumeToEEPROM(IF FSub(vol, volumeStep) < minVolume THEN minVolume
                                    ELSE FSub(vol, volumeStep)),
          gain |-> IF FSub(vol, volumeStep) < minVolume THEN minVolume
                   ELSE FSub(vol, volumeStep),
          writes |-> 1,
          play |-> PlayIfExists(VOLUMEDN_WAV, files), branch |-> "voldn"]

volumeDown(vol, ee, g, files) ==
    IF vol <= minVolume
    THEN [vol |-> vol, ee |-> ee, gain |-> g, writes |-> 0,
          play |-> PlayIfExists(VOLUMEMN_WAV, files), branch |-> "voldn_min"]
    ELSE LET v1 == FSub(vol, volumeStep)
             v2 == IF v1 < minVolume THEN minVolume ELSE v1
         IN  [vol |-> v2, ee |-> saveVolumeToEEPROM(v2), gain |-> v2, writes |-> 1,
              play |-> PlayIfExists(VOLUMEDN_WAV, files), branch |-> "voldn"]

---------------------------------------------------------------------------
(* NDEF text record parser *)

\* data[i] of the C code is data[i + 1] here
Byte(data, i) == data[i + 1]

HeaderAt(data, i) ==
    Byte(data, i) = 209 /\ Byte(data, i + 1) = 1 /\ Byte(data, i + 3) = 84

\* the language code length taken as the whole status byte, flag bits included
langCodeLength_NoMask(data, i) == Byte(data, i + 4)

langCodeLength(data, i) == Byte(data, i + 4) % 64
textStart(data, i) == i + 5 + langCodeLength(data, i)
textLength(data, i) == Byte(data, i + 2) - 1 - langCodeLength(data, i)

\* the overrun check letting the text end one byte past the data
LengthOk_OffByOne(data, dataLength, maxTextLength, i) ==
    /\ textLength(data, i) > 0
    /\ textLength(data, i) < maxTextLength
    /\ textStart(data, i) + textLength(data, i) <= dataLength + 1

LengthOk(data, dataLength, maxTextLength, i) ==
    /\ textLength(data, i) > 0
    /\ textLength(data, i) < maxTextLength
    /\ textStart(data, i) + textLength(data, i) <= dataLength

\* the loop bound one lower
ScanLimit_Seven(dataLength) == dataLength - 7

\* the for loop runs while i < dataLength - 6
ScanLimit(dataLength) == dataLength - 6

\* a scan that gives up at the first header whose lengths fail the checks
RECURSIVE ScanFrom_StopAtFirst(_, _, _, _)
ScanFrom_StopAtFirst(data, dataLength, maxTextLength, i) ==
    IF ~(i < dataLength - 6)
    THEN [ok |-> FALSE, at |-> -1, text |-> <<>>]
    ELSE IF HeaderAt(data, i)
         THEN IF LengthOk(data, dataLength, maxTextLength, i)
              THEN [ok |-> TRUE, at |-> i,
                    text |-> SubSeq(data, textStart(data, i) + 1,
                                    textStart(data, i) + textLength(data, i))]
              ELSE [ok |-> FALSE, at |-> i, text |-> <<>>]
         ELSE ScanFrom_StopAtFirst(data, dataLength, maxTextLength, i + 1)

RECURSIVE ScanFrom(_, _, _, _)
ScanFrom(data, dataLength, maxTextLength, i) ==
    IF ~(i < ScanLimit(dataLength))
    THEN [ok |-> FALSE, at |-> -1, text |-> <<>>]
    ELSE IF HeaderAt(data, i) /\ LengthOk(data, dataLength, maxTextLength, i)
         THEN [ok |-> TRUE, at |-> i,
               text |-> SubSeq(data, textStart(data, i) + 1,
                               textStart(data, i) + textLength(data, i))]
         ELSE ScanFrom(data, dataLength, maxTextLength, i + 1)

\* indexes of data[] the header test at offset i reads; && stops at the first
\* comparison that fails
HeaderReads(data, i) ==
    {i} \cup (IF Byte(data, i) # 209 THEN {}
              ELSE {i + 1} \cup (IF Byte(data, i + 1) # 1 THEN {} ELSE {i + 3}))

\* indexes of data[] the scan reads from offset i on: the header tests, the
\* length and status bytes of each header found, the text memcpy copies
RECURSIVE ScanReads(_, _, _, _)
ScanReads(data, dataLength, maxTextLength, i) ==
    IF ~(i < ScanLimit(dataLength))
    THEN {}
    ELSE HeaderReads(data, i)
         \cup IF ~HeaderAt(data, i)
              THEN ScanReads(data, dataLength, maxTextLength, i + 1)
              ELSE {i + 2, i + 4}
                   \cup IF LengthOk(data, dataLength, maxTextLength, i)
                        THEN textStart(data, i)
                             ..(textStart(data, i) + textLength(data, i) - 1)
                        ELSE ScanReads(data, dataLength, maxTextLength, i + 1)

\* indexes of textOutput[] the call writes: the text and its terminator
OutputWrites(data, dataLength, maxTextLength) ==
    IF ~ScanFrom(data, dataLength, maxTextLength, 0).ok THEN {}
    ELSE 0..textLength(data, ScanFrom(data, dataLength, maxTextLength, 0).at)

parseNDEFTextRecord(data, dataLength, maxTextLength) ==
    ScanFrom(data, dataLength, maxTextLength, 0)

---------------------------------------------------------------------------
(* asset lookup *)

\* the copy loop stopping at 17 characters instead of 27
FileName_Limit17(str) ==
    IF Len(str) <= 17 THEN UpperCase(str) \o DotWAV
    ELSE UpperCase(SubSeq(str, 1, 17)) \o <<"UNINIT">>

\* filename[] as searchAndPlayWAV() builds it.  Bytes 27.. of a longer text are
\* never stored, so the name is then not determined by the text (UNINIT).
FileName(str) ==
    IF Len(str) <= 27 THEN UpperCase(str) \o DotWAV
    ELSE UpperCase(SubSeq(str, 1, 27)) \o <<"UNINIT">>

\* char filename[32]
NameBufferSize == 32

\* indexes of filename[] searchAndPlayWAV() writes for a text of at most 27
\* characters: the copy loop, the terminator, then strcat's ".WAV" and its 0
NameWrites(str) ==
    (0..(Len(str) - 1)) \cup {Len(str)} \cup (Len(str)..(Len(str) + Len(DotWAV)))

\* the names searchAndPlayWAV() hands to play(); it returns true iff there is one
searchAndPlayWAV(str, files) == PlayIfExists(FileName(str), files)

playNoMatch(files) == PlayIfExists(NOMATCH_WAV, files)

---------------------------------------------------------------------------
(* loop() *)

PageBytes == 4
FirstPage == 4
LastPage == 9
WindowBytes == 24
TextBufferSize == 128

\* lines 301-318: pages FirstPage..LastPage are read in order; failPage is the
\* page whose read fails (0: none does).  The bytes gathered.
PagesRead(failPage) ==
    IF failPage = 0 THEN LastPage - FirstPage + 1 ELSE failPage - FirstPage

GatherPages(tag, failPage) ==
    LET want == PagesRead(failPage) * PageBytes
        n == IF want <= WindowBytes THEN want ELSE WindowBytes
    IN  SubSeq(tag, 1, n)

\* the test of searchAndPlayWAV()'s result dropped: NOMATCH.WAV follows every lookup
PlayOrNoMatch_Always(str, vol, ee, g, files) ==
    [vol |-> vol, ee |-> ee, gain |-> g, writes |-> 0,
     play |-> searchAndPlayWAV(str, files) \o playNoMatch(files),
     branch |-> IF searchAndPlayWAV(str, files) # <<>> THEN "asset" ELSE "nomatch"]

\* lines 337-340: play the file named by the text, or else NOMATCH.WAV
PlayOrNoMatch(str, vol, ee, g, files) ==
    IF searchAndPlayWAV(str, files) # <<>>
    THEN [vol |-> vol, ee |-> ee, gain |-> g, writes |-> 0,
          play |-> searchAndPlayWAV(str, files), branch |-> "asset"]
    ELSE [vol |-> vol, ee |-> ee, gain |-> g, writes |-> 0,
          play |-> playNoMatch(files), branch |-> "nomatch"]

\* the keywords compared on their first eight characters only
Dispatch_PrefixMatch(raw, vol, ee, g, files) ==
    IF Len(UpperCase(CStr(raw))) >= 8 /\ SubSeq(UpperCase(CStr(raw)), 1, 8) = VOLUMEUP
    THEN volumeUp(vol, ee, g, files)
    ELSE IF Len(UpperCase(CStr(raw))) >= 8 /\ SubSeq(UpperCase(CStr(raw)), 1, 8) = VOLUMEDN
    THEN volumeDown(vol, ee, g, files)
    ELSE PlayOrNoMatch(UpperCase(CStr(raw)), vol, ee, g, files)

\* lines 325-341: the decoded text, uppercased, selects the action
Dispatch(raw, vol, ee, g, files) ==
    IF UpperCase(CStr(raw)) = VOLUMEUP THEN volumeUp(vol, ee, g, files)
    ELSE IF UpperCase(CStr(raw)) = VOLUMEDN THEN volumeDown(vol, ee, g, files)
    ELSE PlayOrNoMatch(UpperCase(CStr(raw)), vol, ee, g, files)

\* a pass that acts on nothing but stores the volume again
Quiet_Resave(vol, ee, g, data, res, path) ==
    [vol |-> vol, ee |-> saveVolumeToEEPROM(vol), gain |-> g, writes |-> 1,
     play |-> <<>>, branch |-> path,
     allData |-> data, dataIndex |-> Len(data), parsed |-> res, text |-> <<>>]

\* what a pass that acts on nothing leaves behind
Quiet(vol, ee, g, data, res, path) ==
    [vol |-> vol, ee |-> ee, gain |-> g, writes |-> 0, play |-> <<>>, branch |-> path,
     allData |-> data, dataIndex |-> Len(data), parsed |-> res, text |-> <<>>]

\* a parse failure answered with NOMATCH.WAV
ParseAndAct_NoMatchOnFail(data, vol, ee, g, files) ==
    IF ~parseNDEFTextRecord(data, Len(data), TextBufferSize).ok
    THEN [Quiet(vol, ee, g, data, "fail", "parsefail") EXCEPT !.play = playNoMatch(files)]
    ELSE Dispatch(parseNDEFTextRecord(data, Len(data), TextBufferSize).text,
                  vol, ee, g, files)
         @@ [allData |-> data, dataIndex |-> Len(data), parsed |-> "ok",
             text |-> parseNDEFTextRecord(data, Len(data), TextBufferSize).text]

\* lines 320-344: a complete read is parsed and, if a text is found, acted on
ParseAndAct(data, vol, ee, g, files) ==
    IF ~parseNDEFTextRecord(data, Len(data), TextBufferSize).ok
    THEN Quiet(vol, ee, g, data, "fail", "parsefail")
    ELSE Dispatch(parseNDEFTextRecord(data, Len(data), TextBufferSize).text,
                  vol, ee, g, files)
         @@ [allData |-> data, dataIndex |-> Len(data), parsed |-> "ok",
             text |-> parseNDEFTextRecord(data, Len(data), TextBufferSize).text]

\* a pass that answers a failed page read with NOMATCH.WAV
loopBody_NoMatchOnReadFail(tagPresent, uidLength, failPage, tag, vol, ee, g, files) ==
    IF ~tagPresent THEN Quiet(vol, ee, g, <<>>, "none", "notag")
    ELSE IF uidLength # 7 THEN Quiet(vol, ee, g, <<>>, "none", "baduid")
    ELSE IF ~(failPage = 0 /\ Len(GatherPages(tag, failPage)) > 0)
         THEN [Quiet(vol, ee, g, GatherPages(tag, failPage), "none", "readfail")
                 EXCEPT !.play = playNoMatch(files)]
    ELSE ParseAndAct(GatherPages(tag, failPage), vol, ee, g, files)

\* one pass of loop() up to its return or to the wait on isPlaying()
loopBody(tagPresent, uidLength, failPage, tag, vol, ee, g, files) ==
    IF ~tagPresent THEN Quiet(vol, ee, g, <<>>, "none", "notag")
    ELSE IF uidLength # 7 THEN Quiet(vol, ee, g, <<>>, "none", "baduid")
    ELSE IF ~(failPage = 0 /\ Len(GatherPages(tag, failPage)) > 0)
         THEN Quiet(vol, ee, g, GatherPages(tag, failPage), "none", "readfail")
    ELSE ParseAndAct(GatherPages(tag, failPage), vol, ee, g, files)

---------------------------------------------------------------------------
(* the world around the sketch: tags presented, files on the card *)

MUSEUM_WAV == <<77, 85, 83, 69, 85, 77>> \o DotWAV             \* "MUSEUM.WAV"

RECURSIVE Zeros(_)
Zeros(n) == IF n <= 0 THEN <<>> ELSE <<0>> \o Zeros(n - 1)

\* pages 4..9 of an NTAG holding one NDEF text record, language "en":
\* TLV 03 len, D1 01 plen 54 02 'e' 'n', the text, terminator FE, zero fill
NdefTag(text) ==
    LET body == <<3, 7 + Len(text), 209, 1, 3 + Len(text), 84, 2, 101, 110>>
                \o text \o <<254>>
    IN  body \o Zeros(WindowBytes - Len(body))

Tags ==
    { NdefTag(<<86, 111, 108, 117, 109, 101, 85, 112>>),        \* "VolumeUp"
      NdefTag(<<118, 111, 108, 117, 109, 101, 100, 110>>),      \* "volumedn"
      NdefTag(<<77, 117, 115, 101, 117, 109>>),                 \* "Museum"
      NdefTag(<<78, 79, 80, 69>>),                              \* "NOPE"
      Zeros(WindowBytes) }                                      \* blank tag

AllFiles == {STARTUP_WAV, NOMATCH_WAV, VOLUMEUP_WAV, VOLUMEDN_WAV,
             VOLUMEMX_WAV, VOLUMEMN_WAV, MUSEUM_WAV}

StoreConfigs == { AllFiles, {}, {NOMATCH_WAV, VOLUMEMX_WAV, VOLUMEDN_WAV} }

\* what one poll can meet: no tag in the field; a tag of the 4-byte-UID family;
\* an NTAG whose read of page failPage fails (0: every page is read)
NoTag == [present |-> FALSE, uidLength |-> 0, failPage |-> 0, tag |-> <<>>]
PollInputs ==
    {NoTag}
    \cup {[present |-> TRUE, uidLength |-> 4, failPage |-> 0, tag |-> <<>>]}
    \cup [present : {TRUE}, uidLength : {7},
          failPage : {0} \cup (FirstPage..LastPage), tag : Tags]

---------------------------------------------------------------------------
(* the sketch as a state machine *)

Init ==
    /\ pc = "boot"
    /\ eeprom \in 0..255
    /\ currentVolume = defaultVolume
    /\ gain = FloatOne
    /\ sdFiles \in StoreConfigs
    /\ playing = NoFile
    /\ branch = "none"
    /\ played = <<>>
    /\ writes = 0
    /\ allData = <<>>
    /\ dataIndex = 0
    /\ maxText = TextBufferSize
    /\ parsed = "none"
    /\ textBuffer = <<>>
    /\ serialUp = FALSE

\* a host opens the USB serial port: Serial turns true
SerialOpens ==
    /\ ~serialUp
    /\ serialUp' = TRUE
    /\ UNCHANGED <<pc, eeprom, currentVolume, gain, sdFiles, playing, branch, played,
                   writes, allData, dataIndex, maxText, parsed, textBuffer>>

\* setup() going on to the startup sound and loop() when the reader is not found
setup_NoNfcHalt ==
    /\ pc = "boot"
    /\ serialUp
    /\ \E sdOk \in BOOLEAN, nfcOk \in BOOLEAN :
       \E l \in {loadVolumeFromEEPROM(eeprom)},
          start \in {IF sdOk THEN PlayIfExists(STARTUP_WAV, sdFiles) ELSE <<>>} :
             /\ currentVolume' = l.vol
             /\ eeprom' = l.ee
             /\ writes' = l.writes
             /\ gain' = l.vol
             /\ played' = start
             /\ playing' = IF start = <<>> THEN NoFile ELSE start[1]
             /\ pc' = IF ~sdOk THEN "halted"
                      ELSE IF start = <<>> THEN "idle" ELSE "wait"
             /\ branch' = IF ~sdOk THEN "no_sd" ELSE IF ~nfcOk THEN "no_nfc" ELSE "setup"
    /\ UNCHANGED <<sdFiles, allData, dataIndex, maxText, parsed, textBuffer, serialUp>>

\* setup(), from the end of its wait on Serial: load the volume, bring up the
\* card and the reader (halting for ever if either fails), start STARTUP.WAV
\* if it is there
setup ==
    /\ pc = "boot"
    /\ serialUp
    /\ \E sdOk \in BOOLEAN, nfcOk \in BOOLEAN :
       \E l \in {loadVolumeFromEEPROM(eeprom)},
          start \in {IF sdOk /\ nfcOk THEN PlayIfExists(STARTUP_WAV, sdFiles) ELSE <<>>} :
             /\ currentVolume' = l.vol
             /\ eeprom' = l.ee
             /\ writes' = l.writes
             /\ gain' = l.vol
             /\ played' = start
             /\ playing' = IF start = <<>> THEN NoFile ELSE start[1]
             /\ pc' = IF ~sdOk \/ ~nfcOk THEN "halted"
                      ELSE IF start = <<>> THEN "idle" ELSE "wait"
             /\ branch' = IF ~sdOk THEN "no_sd" ELSE IF ~nfcOk THEN "no_nfc" ELSE "setup"
    /\ UNCHANGED <<sdFiles, allData, dataIndex, maxText, parsed, textBuffer, serialUp>>

\* loop() returning at once after play(), without its wait on isPlaying()
Pass_NoWait(inputs) ==
    /\ pc = "idle"
    /\ \E in \in inputs :
       \E r \in {loopBody(in.present, in.uidLength, in.failPage, in.tag,
                           currentVolume, eeprom, gain, sdFiles)} :
             /\ currentVolume' = r.vol
             /\ eeprom' = r.ee
             /\ gain' = r.gain
             /\ writes' = r.writes
             /\ played' = r.play
             /\ playing' = IF r.play = <<>> THEN playing ELSE r.play[1]
             /\ allData' = r.allData
             /\ dataIndex' = r.dataIndex
             /\ parsed' = r.parsed
             /\ textBuffer' = r.text
             /\ branch' = r.branch
             /\ pc' = "idle"
    /\ UNCHANGED <<sdFiles, maxText, serialUp>>

\* loop() meeting one of the given inputs: one poll cycle, up to its return or
\* to its wait on isPlaying()
Pass(inputs) ==
    /\ pc = "idle"
    /\ \E in \in inputs :
       \E r \in {loopBody(in.present, in.uidLength, in.failPage, in.tag,
                           currentVolume, eeprom, gain, sdFiles)} :
             /\ currentVolume' = r.vol
             /\ eeprom' = r.ee
             /\ gain' = r.gain
             /\ writes' = r.writes
             /\ played' = r.play
             /\ playing' = IF r.play = <<>> THEN playing ELSE r.play[1]
             /\ allData' = r.allData
             /\ dataIndex' = r.dataIndex
             /\ parsed' = r.parsed
             /\ textBuffer' = r.text
             /\ branch' = r.branch
             /\ pc' = IF r.play = <<>> THEN "idle" ELSE "wait"
    /\ UNCHANGED <<sdFiles, maxText, serialUp>>

loop == Pass(PollInputs)

\* the player reaches the end of the file: isPlaying() turns false
PlaybackEnds ==
    /\ playing # NoFile
    /\ playing' = NoFile
    /\ UNCHANGED <<pc, eeprom, currentVolume, gain, sdFiles, branch, played, writes,
                   allData, dataIndex, maxText, parsed, textBuffer, serialUp>>

\* the wait loop left without looking at isPlaying()
WaitDone_NoWait ==
    /\ pc = "wait"
    /\ pc' = "idle"
    /\ UNCHANGED <<eeprom, currentVolume, gain, sdFiles, playing, branch, played, writes,
                   allData, dataIndex, maxText, parsed, textBuffer, serialUp>>

\* while (playSdWav1.isPlaying()) delay(..): left once isPlaying() is false
WaitDone ==
    /\ pc = "wait"
    /\ playing = NoFile
    /\ pc' = "idle"
    /\ UNCHANGED <<eeprom, currentVolume, gain, sdFiles, playing, branch, played, writes,
                   allData, dataIndex, maxText, parsed, textBuffer, serialUp>>

Next == SerialOpens \/ setup \/ loop \/ PlaybackEnds \/ WaitDone

Spec == Init /\ [][Next]_vars

---------------------------------------------------------------------------
(* the parser on its own: parseNDEFTextRecord applied to bounded buffers *)

MaxPad == 2
MaxTextLen == 3
SmallMaxText == 3

Pad(n) == Zeros(n)

\* D1 01 plen 54 status, then the language code, then the text
Record(plen, status, lang, text) == <<209, 1, plen, 84, status>> \o lang \o text

\* status bytes with their language codes: none; "en"; "en" with the UTF-16 bit set
StatusLangs == { <<0, <<>>>>, <<2, <<101, 110>>>>, <<130, <<101, 110>>>> }

\* texts "H", "Hi", "Hi!", ...
SampleText == <<72, 105, 33, 63, 46, 44, 59, 58>>
Texts == { SubSeq(SampleText, 1, n) : n \in 1..MaxTextLen }

\* a well-formed text record: len = 1 + langcodelen + textlen
TextRecord(sl, text) == Record(1 + Len(sl[2]) + Len(text), sl[1], sl[2], text)

\* headers whose payload length makes textLength -1, 0, SmallMaxText, 59
BadHeaders == { Record(plen, 0, <<>>, <<>>) : plen \in {0, 1, 1 + SmallMaxText, 60} }

Framed == { Pad(a) \o TextRecord(sl, t) \o Pad(b) :
              a \in 0..MaxPad, b \in 0..MaxPad, sl \in StatusLangs, t \in Texts }

BadThenGood == { Pad(a) \o bad \o TextRecord(sl, t) \o Pad(b) :
                   a \in 0..MaxPad, b \in 0..MaxPad, bad \in BadHeaders,
                   sl \in StatusLangs, t \in Texts }

Blank == { Pad(n) : n \in 0..(8 + MaxPad) }

ParserInputs == Framed \cup BadThenGood \cup Blank

ParserInit ==
    /\ pc = "parse_call"
    /\ allData \in ParserInputs
    /\ dataIndex = Len(allData)
    /\ maxText \in {SmallMaxText, TextBufferSize}
    /\ parsed = "none"
    /\ textBuffer = <<>>
    /\ eeprom = 0
    /\ currentVolume = defaultVolume
    /\ gain = FloatOne
    /\ sdFiles = {}
    /\ playing = NoFile
    /\ branch = "none"
    /\ played = <<>>
    /\ writes = 0
    /\ serialUp = FALSE

\* a failed call leaves textOutput as it was
parseCall ==
    /\ pc = "parse_call"
    /\ \E r \in {parseNDEFTextRecord(allData, dataIndex, maxText)} :
         /\ parsed' = IF r.ok THEN "ok" ELSE "fail"
         /\ textBuffer' = IF r.ok THEN r.text ELSE textBuffer
    /\ pc' = "parse_ret"
    /\ UNCHANGED <<eeprom, currentVolume, gain, sdFiles, playing, branch, played, writes,
                   allData, dataIndex, maxText, serialUp>>

ParserSpec == ParserInit /\ [][parseCall]_vars

---------------------------------------------------------------------------
(* properties *)

\* the command word of the most recent pass: the decoded text, uppercased
Command == UpperCase(CStr(textBuffer))

\* what a guarded play of an optional file hands to play()
IfPresent(name) == IF name \in sdFiles THEN <<name>> ELSE <<>>

\* 100 * v as a real number (v a count of 2^-30), rounded to the nearest integer
NearestPercent(v) ==
    LET s  == Bits(v) - 24
        s0 == IF s > 0 THEN s ELSE 0
        m  == v \div Pow2(s0)
        d  == Pow2(30 - s0)
        q  == (m * 100) \div d
        r  == (m * 100) % d
    IN  IF r >= d - r THEN q + 1 ELSE q

TransportErrors == {"notag", "baduid", "readfail"}

\* C1: at most one playback is in flight.  The sketch polls for a tag only from
\* idle, and it is idle (or not yet started, or halted) only when the player is
\* silent; a pass starts at most one playback, and while a file plays the sketch
\* sits in its wait loop on that very file.
C1_OnePlaybackInFlight ==
    /\ pc \in {"boot", "halted", "idle"} => playing = NoFile
    /\ Len(played) <= 1
    /\ playing # NoFile => pc = "wait" /\ played = <<playing>>

\* a pass has played the content file to its end and returned
C1_Witness ==
    pc = "idle" /\ branch = "asset" /\ played = <<MUSEUM_WAV>> /\ playing = NoFile

\* C2: a pass that meets no tag, a UID that is not 7 bytes long, or a failed page
\* read (fewer than 24 bytes gathered) plays nothing, does not call the parser,
\* writes nothing to the EEPROM, leaves volume, EEPROM cell and gain as they
\* were, and returns ready for the next poll.
C2_TransportErrorSilent ==
    [][ (pc = "idle" /\ (branch' \in TransportErrors \/ dataIndex' < WindowBytes))
        => /\ played' = <<>>
           /\ parsed' = "none"
           /\ writes' = 0
           /\ UNCHANGED <<currentVolume, eeprom, gain, playing>>
           /\ pc' = "idle" ]_vars

\* the read of the 4th page failed after three pages were gathered
C2_Witness ==
    pc = "idle" /\ branch = "readfail" /\ dataIndex = 3 * PageBytes /\ played = <<>>

\* C3: when the decoded text is not a volume keyword, the pass hands to play()
\* exactly the file uppercase(text).WAV if the card has it, else exactly
\* NOMATCH.WAV if the card has that, else nothing.
C3_AssetOrNoMatch ==
    (parsed = "ok" /\ pc \in {"idle", "wait"} /\ Command \notin {VOLUMEUP, VOLUMEDN})
    => played = IF (Command \o DotWAV) \in sdFiles THEN <<Command \o DotWAV>>
                ELSE IfPresent(NOMATCH_WAV)

\* the tag text "Museum" played MUSEUM.WAV
C3_Witness ==
    /\ parsed = "ok"
    /\ textBuffer = <<77, 117, 115, 101, 117, 109>>
    /\ played = <<MUSEUM_WAV>>

\* C4: once setup() has run the volume lies in [minVolume, maxVolume].
C4_VolumeInRange ==
    pc # "boot" => (minVolume <= currentVolume /\ currentVolume <= maxVolume)

\* C5: once setup() has run, the EEPROM cell holds the volume scaled by 100
\* (the integer nearest to 100 * currentVolume).
C5_PersistedAgrees ==
    pc # "boot" => eeprom = NearestPercent(currentVolume)

\* C6: a pass that changes the volume makes exactly one EEPROM write; a volume-up
\* at or above the maximum and a volume-down at or below the minimum make none
\* and leave the volume and the EEPROM cell alone; every other volume command
\* changes the volume.
C6_OneWritePerChange ==
    [][ pc = "idle" =>
        /\ currentVolume' # currentVolume => writes' = 1
        /\ (parsed' = "ok" /\ Command' = VOLUMEUP /\ currentVolume >= maxVolume)
           => (writes' = 0 /\ UNCHANGED <<currentVolume, eeprom>>)
        /\ (parsed' = "ok" /\ Command' = VOLUMEDN /\ currentVolume <= minVolume)
           => (writes' = 0 /\ UNCHANGED <<currentVolume, eeprom>>)
        /\ (parsed' = "ok" /\ Command' = VOLUMEUP /\ currentVolume < maxVolume)
           => (writes' = 1 /\ currentVolume' > currentVolume)
        /\ (parsed' = "ok" /\ Command' = VOLUMEDN /\ currentVolume > minVolume)
           => (writes' = 1 /\ currentVolume' < currentVolume) ]_vars

\* a volume-up arrived at full volume and wrote nothing
C6_Witness ==
    /\ parsed = "ok" /\ Command = VOLUMEUP
    /\ branch = "volup_max" /\ writes = 0
    /\ currentVolume = maxVolume /\ eeprom = 100

\* C10: a volume-down at or below the minimum hands VOLUMEMN.WAV to play() and
\* leaves the EEPROM cell alone, any other volume-down hands it VOLUMEDN.WAV; a
\* volume-up at or above the maximum hands it VOLUMEMX.WAV and leaves the cell
\* alone, any other volume-up VOLUMEUP.WAV; each only if the card has the file,
\* and nothing else (never NOMATCH.WAV) is played.
C10_FeedbackAsset ==
    [][ (pc = "idle" /\ parsed' = "ok") =>
        /\ Command' = VOLUMEDN =>
             IF currentVolume <= minVolume
             THEN played' = IfPresent(VOLUMEMN_WAV) /\ eeprom' = eeprom
             ELSE played' = IfPresent(VOLUMEDN_WAV)
        /\ Command' = VOLUMEUP =>
             IF currentVolume >= maxVolume
             THEN played' = IfPresent(VOLUMEMX_WAV) /\ eeprom' = eeprom
             ELSE played' = IfPresent(VOLUMEUP_WAV) ]_vars

\* a volume-down at the minimum played VOLUMEMN.WAV
C10_Witness ==
    /\ parsed = "ok" /\ Command = VOLUMEDN
    /\ currentVolume = minVolume /\ eeprom = 10
    /\ played = <<VOLUMEMN_WAV>>

---------------------------------------------------------------------------
(* properties of the parser, over ParserSpec *)

\* offsets at which D1 01 xx 54 and a status byte lie inside the buffer
HeaderOffsets == { i \in 0..(Len(allData) - 5) : HeaderAt(allData, i) }

\* the least member of a non-empty set of offsets
Least(S) == CHOOSE i \in S : \A j \in S : i <= j

\* the text a record with its header at offset i announces
TextAt(i) == SubSeq(allData, textStart(allData, i) + 1,
                    textStart(allData, i) + textLength(allData, i))

\* offsets the scan accepts: inside its range, header present, lengths in order
Decodable == { i \in 0..(dataIndex - 7) :
                 HeaderAt(allData, i) /\ LengthOk(allData, dataIndex, maxText, i) }

\* C7 as stated: when the first header in the buffer fails the length checks,
\* the parser fails, whatever follows.
C7_StopsAtFirstHeader ==
    (pc = "parse_ret" /\ HeaderOffsets # {}
       /\ ~LengthOk(allData, dataIndex, maxText, Least(HeaderOffsets)))
    => parsed = "fail"

\* C7, amended: the scan goes on past a header that fails the length checks.
\* The parser succeeds exactly when some offset in 0..dataLength-7 has a header
\* that passes them, and it returns the text of the first such offset.
C7_ScansPastBadHeader ==
    pc = "parse_ret" =>
        IF Decodable = {} THEN parsed = "fail"
        ELSE parsed = "ok" /\ textBuffer = TextAt(Least(Decodable))

\* the first header failed the checks and a later record was decoded
C7_Witness ==
    /\ pc = "parse_ret" /\ parsed = "ok"
    /\ HeaderOffsets # {}
    /\ ~LengthOk(allData, dataIndex, maxText, Least(HeaderOffsets))
    /\ Least(Decodable) > Least(HeaderOffsets)

\* the buffer is a zero padding, a well-formed record of text t, b zero bytes
IsFramed(a, sl, t, b) == allData = Pad(a) \o TextRecord(sl, t) \o Pad(b)

\* C8 as stated: every padded well-formed record whose text is shorter than
\* maxTextLength decodes to exactly its text.
C8_RoundTrip ==
    pc = "parse_ret" =>
        \A a \in 0..MaxPad, b \in 0..MaxPad, sl \in StatusLangs, t \in Texts :
            (IsFramed(a, sl, t, b) /\ Len(t) < maxText)
            => (parsed = "ok" /\ textBuffer = t)

\* C8, amended: the round trip holds when the record's header starts below
\* offset bufferLength-6, that is unless the record is six bytes long and ends
\* the buffer.
C8_RoundTripInRange ==
    pc = "parse_ret" =>
        \A a \in 0..MaxPad, b \in 0..MaxPad, sl \in StatusLangs, t \in Texts :
            (IsFramed(a, sl, t, b) /\ Len(t) < maxText /\ a < Len(allData) - 6)
            => (parsed = "ok" /\ textBuffer = t)

\* a record with a language code and flag bits, padded on both sides, decoded
C8_Witness ==
    /\ pc = "parse_ret" /\ parsed = "ok"
    /\ \E t \in Texts : IsFramed(MaxPad, <<130, <<101, 110>>>>, t, 1) /\ textBuffer = t

\* the only header of the buffer is at offset i and announces one text byte
\* right after the status byte
OnlyMinimalRecordAt(i) ==
    /\ HeaderOffsets = {i}
    /\ Byte(allData, i + 2) = 2
    /\ Byte(allData, i + 4) = 0

\* C9 as stated: a minimal record starting at offset bufferLength-6, its text
\* byte the last byte of the buffer, is decoded.
C9_LastOffsetScanned ==
    (pc = "parse_ret" /\ dataIndex >= 6 /\ OnlyMinimalRecordAt(dataIndex - 6)
       /\ 1 < maxText)
    => (parsed = "ok" /\ textBuffer = <<allData[dataIndex]>>)

\* C9, amended: the scan covers the offsets 0..bufferLength-7.  A minimal
\* record at any of them, bufferLength-7 included, is decoded; one at offset
\* bufferLength-6 is not.
C9_ScanRange ==
    pc = "parse_ret" =>
        /\ \A i \in 0..(dataIndex - 7) :
             (OnlyMinimalRecordAt(i) /\ 1 < maxText)
             => (parsed = "ok" /\ textBuffer = <<Byte(allData, i + 5)>>)
        /\ (dataIndex >= 6 /\ OnlyMinimalRecordAt(dataIndex - 6)) => parsed = "fail"

\* a minimal record at offset bufferLength-7 was decoded
C9_Witness ==
    /\ pc = "parse_ret" /\ parsed = "ok"
    /\ dataIndex >= 7 /\ OnlyMinimalRecordAt(dataIndex - 7)

---------------------------------------------------------------------------
(* properties of setup() and of whole passes, over Spec *)

\* C11: when setup() loads a stored byte above 100, the volume becomes 0.5 and
\* the EEPROM cell is rewritten at once, with 50, by one write; when it loads
\* a byte of at most 100 it writes nothing and the cell keeps its byte.
C11_SelfHeal ==
    [][ (pc = "boot" /\ pc' # "boot") =>
        IF eeprom > 100
        THEN currentVolume' = defaultVolume /\ eeprom' = 50 /\ writes' = 1
        ELSE eeprom' = eeprom /\ writes' = 0 ]_vars

\* setup() met a byte above 100, fell back to 0.5 and stored 50
C11_Witness ==
    /\ pc = "idle" /\ branch = "setup"
    /\ writes = 1 /\ eeprom = 50 /\ currentVolume = defaultVolume

---------------------------------------------------------------------------
(* volume-down passes only, from a stored 100 *)

\* tags whose text is the volume-down keyword, in three spellings
DownTags ==
    { NdefTag(<<118, 111, 108, 117, 109, 101, 100, 110>>),      \* "volumedn"
      NdefTag(VOLUMEDN),                                        \* "VOLUMEDN"
      NdefTag(<<86, 111, 108, 117, 109, 101, 68, 110>>) }       \* "VolumeDn"

DownInputs == [present : {TRUE}, uidLength : {7}, failPage : {0}, tag : DownTags]

DownInit == Init /\ eeprom = 100

downPass == Pass(DownInputs)

DownNext == SerialOpens \/ setup \/ downPass \/ PlaybackEnds \/ WaitDone

DownSpec == DownInit /\ [][DownNext]_vars

\* C12: starting from 1.0, every volume-down pass leaves the volume at or above
\* 0.1; a pass that changes the volume stores 100 times the new volume rounded
\* to the nearest integer, which is 10 less than the byte stored before (90,
\* 80, ..., 10); and a pass that changes nothing finds the volume at exactly
\* 0.1 with 10 stored.
C12_TenDownsPersistRounded ==
    [][ pc = "idle" =>
        /\ currentVolume' >= minVolume
        /\ currentVolume' # currentVolume
           => (eeprom' = NearestPercent(currentVolume') /\ eeprom' = eeprom - 10)
        /\ currentVolume' = currentVolume
           => (currentVolume = minVolume /\ eeprom = 10) ]_vars

---------------------------------------------------------------------------
(* passes over tags chosen for their texts *)

\* the longest text a record can hold in the window: the text starts at
\* offset 5 or later and must end inside the WindowBytes gathered
MaxWindowText == WindowBytes - 5

\* pages 4..9 of a tag whose record starts at offset 0 and has no language
\* code, announcing n text bytes
RawTag(n, text) ==
    LET body == <<209, 1, 1 + n, 84, 0>> \o text
    IN  body \o Zeros(WindowBytes - Len(body))

\* "ABCDEFGHIJKLMNOPQRS": as many letters as fit
LongText == [k \in 1..MaxWindowText |-> 64 + k]

VOLUMEUPX == VOLUMEUP \o <<88>>                                \* "VOLUMEUPX"

TextTags ==
    { NdefTag(<<118, 111, 108, 117, 109, 101, 117, 112>>),      \* "volumeup"
      NdefTag(<<86, 111, 108, 117, 109, 101, 85, 112>>),        \* "VolumeUp"
      NdefTag(VOLUMEUP),                                        \* "VOLUMEUP"
      NdefTag(VOLUMEDN),                                        \* "VOLUMEDN"
      NdefTag(<<118, 111, 108, 117, 109, 101, 100, 110>>),      \* "volumedn"
      NdefTag(<<86, 79, 76, 85, 77, 69, 85>>),                  \* "VOLUMEU"
      NdefTag(VOLUMEUPX),                                       \* "VOLUMEUPX"
      NdefTag(<<118, 111, 108, 117, 109, 101, 100, 110, 115>>), \* "volumedns"
      NdefTag(<<88, 86, 79, 76, 85, 77, 69, 68, 78>>),          \* "XVOLUMEDN"
      NdefTag(<<0, 65>>),                                       \* NUL "A": the empty string
      NdefTag(<<77, 117, 115, 101, 117, 109>>),                 \* "Museum"
      NdefTag(<<78, 79, 80, 69>>),                              \* "NOPE"
      RawTag(MaxWindowText, LongText),                          \* the longest text
      RawTag(MaxWindowText + 1, LongText),                      \* one byte more announced
      Zeros(WindowBytes) }                                      \* blank tag

TextInputs == [present : {TRUE}, uidLength : {7}, failPage : {0}, tag : TextTags]

\* cards that also hold files named by the empty text, by a keyword with a
\* letter appended, and by the longest text
TextStores ==
    { AllFiles \cup {DotWAV, VOLUMEUPX \o DotWAV, LongText \o DotWAV},
      {NOMATCH_WAV},
      {} }

TextInit ==
    /\ pc = "boot"
    /\ eeprom \in {10, 55, 100, 200}
    /\ currentVolume = defaultVolume
    /\ gain = FloatOne
    /\ sdFiles \in TextStores
    /\ playing = NoFile
    /\ branch = "none"
    /\ played = <<>>
    /\ writes = 0
    /\ allData = <<>>
    /\ dataIndex = 0
    /\ maxText = TextBufferSize
    /\ parsed = "none"
    /\ textBuffer = <<>>
    /\ serialUp = FALSE

textPass == Pass(TextInputs)

TextNext == SerialOpens \/ setup \/ textPass \/ PlaybackEnds \/ WaitDone

TextSpec == TextInit /\ [][TextNext]_vars

\* what the lookup of a text hands to play(): TEXT.WAV if the card has it,
\* else NOMATCH.WAV if the card has that, else nothing
LookupOf(text) ==
    IF (text \o DotWAV) \in sdFiles THEN <<text \o DotWAV>> ELSE IfPresent(NOMATCH_WAV)

\* C13: a decoded text that equals VOLUMEUP when uppercased takes the volume-up
\* path, whatever its case; otherwise one that equals VOLUMEDN takes the
\* volume-down path; every other text (a keyword cut short or with letters
\* added, the empty string) takes neither, leaves the volume alone and goes to
\* the lookup of uppercase(text).WAV.  Each pass takes exactly one of the three.
C13_Classification ==
    [][ (pc = "idle" /\ parsed' = "ok") =>
        IF Command' = VOLUMEUP
        THEN /\ branch' \in {"volup", "volup_max"}
             /\ currentVolume' >= currentVolume
             /\ played' \in {IfPresent(VOLUMEUP_WAV), IfPresent(VOLUMEMX_WAV)}
        ELSE IF Command' = VOLUMEDN
        THEN /\ branch' \in {"voldn", "voldn_min"}
             /\ currentVolume' <= currentVolume
             /\ played' \in {IfPresent(VOLUMEDN_WAV), IfPresent(VOLUMEMN_WAV)}
        ELSE /\ branch' \in {"asset", "nomatch"}
             /\ UNCHANGED <<currentVolume, eeprom, gain>>
             /\ played' = LookupOf(Command') ]_vars

\* "VOLUMEUPX" was looked up as a file and played; the volume was not touched
C13_Witness ==
    /\ parsed = "ok" /\ Command = VOLUMEUPX
    /\ branch = "asset" /\ played = <<VOLUMEUPX \o DotWAV>> /\ writes = 0

\* the empty string was looked up as ".WAV"
C13_EmptyWitness ==
    /\ parsed = "ok" /\ textBuffer = <<0, 65>> /\ Command = <<>>
    /\ played = <<DotWAV>>

---------------------------------------------------------------------------
(* further properties over Spec *)

\* C14: a pass that gathers all 24 bytes and finds no text record in them plays
\* nothing (not NOMATCH.WAV either), writes nothing to the EEPROM, leaves
\* volume, EEPROM cell and gain as they were, and returns ready for the next
\* poll.
C14_ParseFailSilent ==
    [][ (pc = "idle" /\ parsed' = "fail") =>
        /\ dataIndex' = WindowBytes
        /\ played' = <<>>
        /\ writes' = 0
        /\ UNCHANGED <<currentVolume, eeprom, gain, playing>>
        /\ pc' = "idle" ]_vars

\* a blank tag was read in full on a card that has NOMATCH.WAV; nothing played
C14_Witness ==
    /\ pc = "idle" /\ parsed = "fail" /\ branch = "parsefail"
    /\ allData = Zeros(WindowBytes)
    /\ NOMATCH_WAV \in sdFiles /\ played = <<>>

---------------------------------------------------------------------------
(* progress.  The sketch is the only program on the processor and never
   stops: once the serial port is open setup() runs on, and once the player
   is silent a wait loop is left.  Nothing makes the host open the serial
   port or the player reach the end of a file. *)

FairSpec == TextSpec /\ WF_vars(setup) /\ WF_vars(WaitDone)

FatalBranches == {"no_sd", "no_nfc"}

\* setup() has ended in one of its two while (1) loops
Halted == pc = "halted" /\ branch \in FatalBranches

\* C15 as stated: unless the card cannot be accessed or the reader is not
\* found, in which case the sketch halts, setup() completes and loop() starts.
C15_OnlyTwoHalts == <>(Halted \/ pc = "idle")

\* C15, amended: the sketch halts exactly when setup() finds no card or no
\* reader, and then stays halted with no tag read and nothing played; besides,
\* setup() waits, without limit, for the serial port to open and for
\* STARTUP.WAV to end.  Unless the port stays closed for ever or the playback
\* never ends, setup() either halts for one of the two reasons or completes,
\* and loop() starts.
C15_HaltsAndWaits ==
    /\ [](pc = "halted" <=> branch \in FatalBranches)
    /\ [](pc = "halted" => (parsed = "none" /\ played = <<>> /\ playing = NoFile))
    /\ [][pc = "halted" => pc' = "halted"]_vars
    /\ [][pc = "boot" /\ ~serialUp => pc' = "boot"]_vars
    /\ \/ <>(Halted \/ pc = "idle")
       \/ <>[](~serialUp)
       \/ <>[](playing # NoFile)

\* the reader was not found: the volume is loaded, the sketch has halted
C15_Witness ==
    pc = "halted" /\ branch = "no_nfc" /\ serialUp /\ gain = currentVolume

\* the step values 10, 20, ..., 100 percent
StepPercents == { 10 * k : k \in 1..10 }

\* C16: once setup() has run, the volume is one of 0.1, 0.2, ..., 1.0 (to the
\* nearest hundredth) and the EEPROM cell holds a multiple of 10.
C16_Quantized ==
    pc # "boot" =>
        (NearestPercent(currentVolume) \in StepPercents /\ eeprom \in StepPercents)

\* the most recent pass decoded a volume keyword
VolumeCommand == parsed = "ok" /\ Command \in {VOLUMEUP, VOLUMEDN}

\* C17: once setup() has run, only a pass that decodes VOLUMEUP or VOLUMEDN
\* changes the volume or the EEPROM cell or writes to the EEPROM.  Passes that
\* play a content file or NOMATCH.WAV, passes that give up on the tag, and the
\* end of a playback leave all of them as they were.
C17_OnlyVolumeCommandsWrite ==
    [][ (pc # "boot" /\ ~(pc = "idle" /\ VolumeCommand'))
        => (UNCHANGED <<currentVolume, eeprom, gain>> /\ (pc = "idle" => writes' = 0)) ]_vars

\* a content file was played at a volume whose stored byte the code would not
\* write again (53 is stored, 0.53 would be stored as 52); 53 is still there
C17_Witness ==
    /\ pc = "idle" /\ branch = "asset" /\ played = <<MUSEUM_WAV>>
    /\ eeprom = 53 /\ saveVolumeToEEPROM(currentVolume) = 52

---------------------------------------------------------------------------
(* the wait on the player, over FairSpec *)

\* C18: while a file plays the sketch sits in its wait loop and does nothing:
\* it neither stops the player nor gives up waiting, and it leaves the loop,
\* for idle, only when the player is silent.  A wait goes on for ever only if
\* a playback does: every wait on a playback that ends, ends.
C18_WaitsForPlayer ==
    /\ [](playing # NoFile => pc = "wait")
    /\ [][ (pc = "wait" /\ playing # NoFile)
           => /\ pc' = "wait"
              /\ playing' \in {playing, NoFile}
              /\ UNCHANGED <<currentVolume, eeprom, gain, played, branch>> ]_vars
    /\ [][ (pc = "wait" /\ pc' # "wait") => (playing = NoFile /\ pc' = "idle") ]_vars
    /\ <>[](pc = "wait") => <>[](playing # NoFile)

\* NOMATCH.WAV was started by a pass, has ended, and the pass has returned
C18_Witness ==
    /\ pc = "idle" /\ branch = "nomatch"
    /\ played = <<NOMATCH_WAV>> /\ playing = NoFile

\* without the condition on the player the returns are not guaranteed: under
\* FairSpec this fails, by a run in which a file plays for ever
C18_AlwaysReturns == (pc = "wait") ~> (pc = "idle")

---------------------------------------------------------------------------
(* the parser handed a dataLength that may stop short of the bytes in memory *)

\* what lies in memory right after the data: any byte
GuardBytes == {0, 255}

\* what textOutput holds before the call
Stale == <<255>>

WindowBuffers == ParserInputs \cup TextTags

\* allData is the data followed by one more byte of memory; dataIndex, the
\* dataLength handed over, is any length up to that of the data
WindowInit ==
    /\ pc = "parse_call"
    /\ allData \in { buf \o <<g>> : buf \in WindowBuffers, g \in GuardBytes }
    /\ dataIndex \in 0..(Len(allData) - 1)
    /\ maxText \in {SmallMaxText, TextBufferSize}
    /\ parsed = "none"
    /\ textBuffer = Stale
    /\ eeprom = 0
    /\ currentVolume = defaultVolume
    /\ gain = FloatOne
    /\ sdFiles = {}
    /\ playing = NoFile
    /\ branch = "none"
    /\ played = <<>>
    /\ writes = 0
    /\ serialUp = FALSE

WindowSpec == WindowInit /\ [][parseCall]_vars

\* a header in the scanned range announces a text that runs past dataLength
OverrunHeader ==
    \E i \in 0..(dataIndex - 7) :
        /\ HeaderAt(allData, i)
        /\ textLength(allData, i) > 0
        /\ textLength(allData, i) < maxText
        /\ textStart(allData, i) + textLength(allData, i) > dataIndex

\* C19: for every dataLength from 0 to 24 the call reads data[] only at indexes
\* below dataLength and writes textOutput[] only at indexes below
\* maxTextLength; when it fails it has written nothing, and textOutput is as
\* it was.
C19_InBounds ==
    pc = "parse_ret" =>
        /\ ScanReads(allData, dataIndex, maxText, 0) \subseteq 0..(dataIndex - 1)
        /\ OutputWrites(allData, dataIndex, maxText) \subseteq 0..(maxText - 1)
        /\ parsed = "ok" => Len(textBuffer) + 1 = Cardinality(OutputWrites(allData, dataIndex, maxText))
        /\ parsed = "fail" => (OutputWrites(allData, dataIndex, maxText) = {}
                               /\ textBuffer = Stale)

\* the only record announces a text that ends past dataLength: the call
\* failed and left textOutput alone
C19_Witness ==
    /\ pc = "parse_ret" /\ parsed = "fail" /\ textBuffer = Stale
    /\ OverrunHeader
    /\ dataIndex = WindowBytes

---------------------------------------------------------------------------
(* the name buffer of the lookup, over TextSpec *)

\* C20: a text decoded from the 24-byte window has 1 to 19 bytes, so the
\* string handed to the lookup has at most 27 characters: the copy loop stores
\* every one of them (the name is exactly the uppercased text and ".WAV", no
\* byte of it left unwritten) and every write to filename[] falls inside its
\* 32 bytes.
C20_NameFits ==
    (parsed = "ok" /\ pc \in {"idle", "wait"}) =>
        /\ 1 <= Len(textBuffer) /\ Len(textBuffer) <= MaxWindowText
        /\ Len(Command) <= 27
        /\ FileName(Command) = Command \o DotWAV
        /\ NameWrites(Command) \subseteq 0..(NameBufferSize - 1)

\* the longest text the window can hold was looked up and its file played
C20_Witness ==
    /\ parsed = "ok" /\ Len(textBuffer) = MaxWindowText
    /\ branch = "asset" /\ played = <<LongText \o DotWAV>>

====
